---------------------------- MODULE Spec2Model ----------------------------
(***************************************************************************)
(* A model of library/neh/http_common.h: the lock-free segment sequence    *)
(* TLockFreeSequence, the descriptor limits TFdLimits, the request buffer  *)
(* TRequestData with its builders TRequestGet, TRequestPost, TRequestFull, *)
(* and the request-type resolution of MakeFullRequest.                     *)
(***************************************************************************)
EXTENDS Integers, Sequences, FiniteSets, TLC

(***************************************************************************)
(* Part 1.  TLockFreeSequence<T>                                           *)
(*                                                                         *)
(* size_t is modelled as a word of Bits bits, so the table T_ has Bits     *)
(* slots (sizeof(size_t) * 8) and arithmetic on indices is modulo 2^Bits.  *)
(***************************************************************************)
Bits == 2

NThreads == 2

Threads == 1 .. NThreads

WordMod == 2 ^ Bits

\* Y_ARRAY_SIZE(T_): one slot per bit of size_t.
Segs == 0 .. Bits - 1

\* The largest index the threads of the concurrent model pass to Get.
MaxIndex == 2

\* The arguments of Get: indices for which n + 1 does not wrap to 0
\* (GetValueBitCount(0) is outside the function's domain).
Indices == 0 .. (IF MaxIndex < WordMod - 2 THEN MaxIndex ELSE WordMod - 2)

\* A null pointer. An array is named by the segment it was allocated for,
\* the allocating thread and the number of live arrays that thread already
\* had for the segment (an address is reused only after it was freed); it
\* carries its number of elements and how many of them were constructed.
NULL == [seg |-> -1, by |-> 0, gen |-> 0, len |-> 0, built |-> 0]

\* T_      the table of segment pointers
\* heap    the arrays allocated and not freed
\* badFree whether delete[] was ever applied to a pointer that is not live
\* alive   whether the destructor has not run yet
\* pc, arg, seg, nt   each thread's position in Get/GetList, its n, its
\*         segment index and the array its TArrayHolder holds
\* ref     the reference the thread's last Get returned
\* given   per segment, every array a Get has returned a reference into
\* allocs, cass, reads   the allocations, compare-and-exchanges and loop
\*         tests of the call in progress
\* loads   the reads of the slot *t by the call in progress
VARIABLES T_, heap, badFree, alive, pc, arg, seg, nt, ref, given, allocs, cass, reads, loads

seqVars == <<T_, heap, badFree, alive, pc, arg, seg, nt, ref, given, allocs, cass, reads, loads>>

\* The index computation of Get on its own: a word of `width` bits, the
\* argument `index`, the segment and offset computed from it.
VARIABLES width, index, segment, offset, ipc

idxVars == <<width, index, segment, offset, ipc>>

\* TFdLimits: the fields Soft and Hard; a caller of Delta() with the values of
\* Hard and Soft it has read so far and its result; whether no store hit the
\* fields since Delta() was entered (clean) or since construction (fresh).
VARIABLES Soft, Hard, dpc, got, rdHard, rdSoft, delta, clean, fresh

fdVars == <<Soft, Hard, dpc, got, rdHard, rdSoft, delta, clean, fresh>>

\* The request builders: the message and location passed to Build, the
\* builder that ran and the TRequestData it returned.
VARIABLES message, location, built, req

bldVars == <<message, location, built, req>>

\* MakeFullRequest: the requested type, the content, the scheme of the
\* message's address and the request type in effect.
VARIABLES mfrType, mfrContent, mfrScheme, mfrEffective

mfrVars == <<mfrType, mfrContent, mfrScheme, mfrEffective>>

\* A TRequestData in the hands of a caller: the buffer, what the output
\* stream received (one entry per Write call), the fragments passed to
\* AddPart so far in call order, and Mem as it was constructed.
VARIABLES rd, sink, log, mem0

datVars == <<rd, sink, log, mem0>>

vars == <<seqVars, idxVars, fdVars, bldVars, mfrVars, datVars>>

\* What the operations of one part leave alone: the other parts.
notSeq == <<idxVars, fdVars, bldVars, mfrVars, datVars>>

notIdx == <<seqVars, fdVars, bldVars, mfrVars, datVars>>

notFd == <<seqVars, idxVars, bldVars, mfrVars, datVars>>

notBld == <<seqVars, idxVars, fdVars, mfrVars, datVars>>

notMfr == <<seqVars, idxVars, fdVars, bldVars, datVars>>

notDat == <<seqVars, idxVars, fdVars, bldVars, mfrVars>>

\* util's GetValueBitCount: the number of bits needed to represent v > 0.
RECURSIVE GetValueBitCount(_)
GetValueBitCount(v) == IF v = 0 THEN 0 ELSE 1 + GetValueBitCount(v \div 2)

\* A variant of SegIndex that forgets the - 1.
SegIndexNoDec(n, mod) == GetValueBitCount((n + 1) % mod)

\* Get, line 59: i = GetValueBitCount(n + 1) - 1, size_t being modulo mod.
SegIndex(n, mod) == GetValueBitCount((n + 1) % mod) - 1

\* A variant of SlotOffset that forgets the + 1.
SlotOffsetNoInc(n, i, mod) == ((n % mod) - ((2 ^ i) % mod) + mod) % mod

\* Get, line 61: n + 1 - (((size_t)1) << i), size_t being modulo mod.
SlotOffset(n, i, mod) == (((n + 1) % mod) - ((2 ^ i) % mod) + mod) % mod

\* GetList, line 69: ((size_t)1) << n, the number of elements of segment n.
SegLen(n, mod) == (2 ^ n) % mod

\* A variant of SegmentOf: every index is served by segment 0.
SegmentZero(n) == 0

SegmentOf(n) == SegIndex(n, WordMod)

OffsetOf(n, i) == SlotOffset(n, i, WordMod)

\* A variant of LoopCond: the loop body is entered whatever the slot holds.
LoopAlways(cur) == TRUE

\* GetList, line 68: the loop runs while the slot reads as null.
LoopCond(cur) == cur = NULL

\* A variant of CasSucceeds with the comparison inverted.
CasSwapped(cur, expected) == cur # expected

\* A variant of CasSucceeds: a plain store, which always goes through.
CasBlind(cur, expected) == TRUE

\* AtomicCas(t, nt.Get(), nullptr), line 71: succeeds, and stores, exactly
\* when the slot still holds the expected value.
CasSucceeds(cur, expected) == cur = expected

\* A variant of Constructed: raw storage, no element constructed.
ConstructsNone(k) == 0

\* new T[k], line 69: every one of the k elements is default-constructed
\* before the expression yields the pointer.
Constructed(k) == k

\* A fresh array for segment n allocated by thread t (line 69).
NewArray(t, n) ==
    [seg |-> n, by |-> t,
     gen |-> Cardinality({a \in heap : a.seg = n /\ a.by = t}),
     len |-> SegLen(n, WordMod),
     built |-> Constructed(SegLen(n, WordMod))]

\* delete[] p: the live arrays afterwards (a no-op on a null pointer).
Delete(h, p) == h \ {p}

\* Whether delete[] p is applied to a pointer that is neither null nor live.
BadDelete(h, p) == p # NULL /\ p \notin h

\* A variant of HolderDtor that frees nothing.
HolderLeaks(h, p) == h

\* A variant of HolderReleased: the holder was not released and frees the
\* array it published.
HolderKeepsWinner(h, p) == h \ {p}

\* return nt.Release() (line 72): the holder gives the array up, so its
\* destructor frees nothing.
HolderReleased(h, p) == h

\* A variant of RetValue: the holder's pointer instead of the slot's.
RetOwn(cur, own) == own

\* return *t (line 76): the pointer read from the slot.
RetValue(cur, own) == cur

\* ~TArrayHolder at the end of the loop body (line 74): frees what it
\* still holds.
HolderDtor(h, p) == Delete(h, p)

\* The most allocations and loop tests the model follows within one call.
MaxPerCall == 3

SeqInit ==
    /\ T_ = [i \in Segs |-> NULL]
    /\ heap = {}
    /\ badFree = FALSE
    /\ alive = TRUE
    /\ pc = [t \in Threads |-> "idle"]
    /\ arg = [t \in Threads |-> 0]
    /\ seg = [t \in Threads |-> 0]
    /\ nt = [t \in Threads |-> NULL]
    /\ ref = [t \in Threads |-> [arr |-> NULL, off |-> 0]]
    /\ given = [i \in Segs |-> {}]
    /\ allocs = [t \in Threads |-> 0]
    /\ cass = [t \in Threads |-> 0]
    /\ reads = [t \in Threads |-> 0]
    /\ loads = [t \in Threads |-> 0]

\* Get(n), lines 58-61 up to the call of GetList(i).
GetCall(t, n) ==
    /\ alive
    /\ pc[t] \in {"idle", "done"}
    /\ arg' = [arg EXCEPT ![t] = n]
    /\ seg' = [seg EXCEPT ![t] = SegmentOf(n)]
    /\ pc' = [pc EXCEPT ![t] = "test"]
    /\ ref' = [ref EXCEPT ![t] = [arr |-> NULL, off |-> 0]]
    /\ allocs' = [allocs EXCEPT ![t] = 0]
    /\ cass' = [cass EXCEPT ![t] = 0]
    /\ reads' = [reads EXCEPT ![t] = 0]
    /\ loads' = [loads EXCEPT ![t] = 0]
    /\ UNCHANGED <<T_, heap, badFree, alive, nt, given>>
    /\ UNCHANGED notSeq

\* GetList, line 68: while (!AtomicGet(*t)).
LoopTest(t) ==
    /\ pc[t] = "test"
    /\ reads[t] < MaxPerCall
    /\ reads' = [reads EXCEPT ![t] = @ + 1]
    /\ loads' = [loads EXCEPT ![t] = @ + 1]
    /\ pc' = [pc EXCEPT ![t] = IF LoopCond(T_[seg[t]]) THEN "new" ELSE "ret"]
    /\ UNCHANGED <<T_, heap, badFree, alive, arg, seg, nt, ref, given, allocs, cass>>
    /\ UNCHANGED notSeq

\* GetList, line 69: TArrayHolder<T> nt(new T[((size_t)1) << n]).
New(t) ==
    /\ pc[t] = "new"
    /\ allocs[t] < MaxPerCall
    /\ LET a == NewArray(t, seg[t]) IN
        /\ heap' = heap \cup {a}
        /\ nt' = [nt EXCEPT ![t] = a]
    /\ allocs' = [allocs EXCEPT ![t] = @ + 1]
    /\ pc' = [pc EXCEPT ![t] = "cas"]
    /\ UNCHANGED <<T_, badFree, alive, arg, seg, ref, given, cass, reads, loads>>
    /\ UNCHANGED notSeq

\* GetList, lines 71-72: a successful AtomicCas publishes nt; the holder
\* releases it and Get (line 61) indexes the returned array.
CasWin(t) ==
    /\ pc[t] = "cas"
    /\ CasSucceeds(T_[seg[t]], NULL)
    /\ T_' = [T_ EXCEPT ![seg[t]] = nt[t]]
    /\ ref' = [ref EXCEPT ![t] = [arr |-> nt[t], off |-> OffsetOf(arg[t], seg[t])]]
    /\ given' = [given EXCEPT ![seg[t]] = @ \cup {nt[t]}]
    /\ nt' = [nt EXCEPT ![t] = NULL]
    /\ cass' = [cass EXCEPT ![t] = @ + 1]
    /\ pc' = [pc EXCEPT ![t] = "done"]
    /\ heap' = HolderReleased(heap, nt[t])
    /\ UNCHANGED <<badFree, alive, arg, seg, allocs, reads, loads>>
    /\ UNCHANGED notSeq

\* GetList, line 71: a failed AtomicCas leaves the slot and falls out of
\* the if.
CasLose(t) ==
    /\ pc[t] = "cas"
    /\ ~CasSucceeds(T_[seg[t]], NULL)
    /\ cass' = [cass EXCEPT ![t] = @ + 1]
    /\ pc' = [pc EXCEPT ![t] = "drop"]
    /\ UNCHANGED <<T_, heap, badFree, alive, arg, seg, nt, ref, given, allocs, reads, loads>>
    /\ UNCHANGED notSeq

\* GetList, line 74: the loop body ends and the holder frees the loser.
Drop(t) ==
    /\ pc[t] = "drop"
    /\ heap' = HolderDtor(heap, nt[t])
    /\ badFree' = (badFree \/ BadDelete(heap, nt[t]))
    /\ nt' = [nt EXCEPT ![t] = NULL]
    /\ pc' = [pc EXCEPT ![t] = "test"]
    /\ UNCHANGED <<T_, alive, arg, seg, ref, given, allocs, cass, reads, loads>>
    /\ UNCHANGED notSeq

\* GetList, line 76: return *t, a second read of the slot, and Get (line 61)
\* indexes the array.
Ret(t) ==
    /\ pc[t] = "ret"
    /\ LET a == RetValue(T_[seg[t]], nt[t]) IN
        /\ ref' = [ref EXCEPT ![t] = [arr |-> a, off |-> OffsetOf(arg[t], seg[t])]]
        /\ given' = [given EXCEPT ![seg[t]] = @ \cup {a}]
    /\ loads' = [loads EXCEPT ![t] = @ + 1]
    /\ pc' = [pc EXCEPT ![t] = "done"]
    /\ UNCHANGED <<T_, heap, badFree, alive, arg, seg, nt, allocs, cass, reads>>
    /\ UNCHANGED notSeq

\* The destructor's loop from slot i on, over the pair <<live arrays,
\* whether a bad delete[] happened>>.
RECURSIVE DeleteAll(_, _)
DeleteAll(hb, i) ==
    IF i = Bits THEN hb
    ELSE DeleteAll(<<Delete(hb[1], T_[i]), hb[2] \/ BadDelete(hb[1], T_[i])>>, i + 1)

\* ~TLockFreeSequence, lines 52-56, run with exclusive access: no Get is
\* in progress and none starts afterwards.
Destroy ==
    /\ alive
    /\ \A t \in Threads : pc[t] \in {"idle", "done"}
    /\ heap' = DeleteAll(<<heap, badFree>>, 0)[1]
    /\ badFree' = DeleteAll(<<heap, badFree>>, 0)[2]
    /\ alive' = FALSE
    /\ UNCHANGED <<T_, pc, arg, seg, nt, ref, given, allocs, cass, reads, loads>>
    /\ UNCHANGED notSeq

Step(t) ==
    \/ \E n \in Indices : GetCall(t, n)
    \/ LoopTest(t)
    \/ New(t)
    \/ CasWin(t)
    \/ CasLose(t)
    \/ Drop(t)
    \/ Ret(t)

SeqNext == (\E t \in Threads : Step(t)) \/ Destroy

(***************************************************************************)
(* Part 2.  The index computation of Get as a function of n, for words of  *)
(* 1 .. MaxWidth bits.                                                     *)
(***************************************************************************)
MaxWidth == 6

IdxInit ==
    /\ width \in 1 .. MaxWidth
    /\ index \in 0 .. 2 ^ width - 2
    /\ segment = 0
    /\ offset = 0
    /\ ipc = "arg"

\* Get, lines 59 and 61: the segment index and the offset inside GetList(i).
Locate ==
    /\ ipc = "arg"
    /\ segment' = SegIndex(index, 2 ^ width)
    /\ offset' = SlotOffset(index, SegIndex(index, 2 ^ width), 2 ^ width)
    /\ ipc' = "got"
    /\ UNCHANGED <<width, index>>
    /\ UNCHANGED notIdx

IdxNext == Locate

IdxIdle ==
    /\ width = 1
    /\ index = 0
    /\ segment = 0
    /\ offset = 0
    /\ ipc = "arg"

(***************************************************************************)
(* Part 3.  TFdLimits.  size_t is a word of FdBits bits.                   *)
(***************************************************************************)
FdBits == 16

FdMod == 2 ^ FdBits

SoftDefault == 10000

HardDefault == 15000

\* The values the configuration layer stores into Soft and Hard.
FdValues == {0, 1, 8000, SoftDefault, HardDefault, FdMod - 1}

\* A variant of ExceedLimit: the difference without the comparison.
ExceedLimitUnguarded(val, limit) == (val - limit + FdMod) % FdMod

\* ExceedLimit, lines 37-39, in size_t arithmetic.
ExceedLimit(val, limit) == IF val > limit THEN (val - limit + FdMod) % FdMod ELSE 0

\* TFdLimits(), lines 27-31.
FdInit ==
    /\ Soft = SoftDefault
    /\ Hard = HardDefault
    /\ dpc = "idle"
    /\ got = {}
    /\ rdHard = 0
    /\ rdSoft = 0
    /\ delta = 0
    /\ clean = TRUE
    /\ fresh = TRUE

\* A store to the public field Soft (line 41).
SetSoft(v) ==
    /\ Soft' = v
    /\ clean' = FALSE
    /\ fresh' = FALSE
    /\ UNCHANGED <<Hard, dpc, got, rdHard, rdSoft, delta>>
    /\ UNCHANGED notFd

\* A store to the public field Hard (line 42).
SetHard(v) ==
    /\ Hard' = v
    /\ clean' = FALSE
    /\ fresh' = FALSE
    /\ UNCHANGED <<Soft, dpc, got, rdHard, rdSoft, delta>>
    /\ UNCHANGED notFd

\* Delta() is entered (line 33).
DeltaCall ==
    /\ dpc \in {"idle", "done"}
    /\ dpc' = "args"
    /\ got' = {}
    /\ rdHard' = 0
    /\ rdSoft' = 0
    /\ delta' = 0
    /\ clean' = TRUE
    /\ UNCHANGED <<Soft, Hard, fresh>>
    /\ UNCHANGED notFd

\* Line 34: the argument Hard is read (the two arguments in either order).
ReadHard ==
    /\ dpc = "args"
    /\ "Hard" \notin got
    /\ rdHard' = Hard
    /\ got' = got \cup {"Hard"}
    /\ UNCHANGED <<Soft, Hard, dpc, rdSoft, delta, clean, fresh>>
    /\ UNCHANGED notFd

\* Line 34: the argument Soft is read.
ReadSoft ==
    /\ dpc = "args"
    /\ "Soft" \notin got
    /\ rdSoft' = Soft
    /\ got' = got \cup {"Soft"}
    /\ UNCHANGED <<Soft, Hard, dpc, rdHard, delta, clean, fresh>>
    /\ UNCHANGED notFd

\* Lines 34 and 38: ExceedLimit on the two values read, and the return.
DeltaReturn ==
    /\ dpc = "args"
    /\ got = {"Hard", "Soft"}
    /\ delta' = ExceedLimit(rdHard, rdSoft)
    /\ dpc' = "done"
    /\ UNCHANGED <<Soft, Hard, got, rdHard, rdSoft, clean, fresh>>
    /\ UNCHANGED notFd

FdNext ==
    \/ \E v \in FdValues : SetSoft(v)
    \/ \E v \in FdValues : SetHard(v)
    \/ DeltaCall
    \/ ReadHard
    \/ ReadSoft
    \/ DeltaReturn

FdIdle == FdInit

(***************************************************************************)
(* Part 4.  TRequestData and the builders.  Byte strings are strings; a    *)
(* pointer is a memory region ("Mem": the buffer's own scratch vector,     *)
(* "Data": the message's payload) and an offset into it.                   *)
(***************************************************************************)
Services == {"", "search"}

Hosts == {"h", "example.com"}

Ports == {"", "80",
          "000000000000000000000080",
          "000000000000000000000000000000000000000000000000000080"}

Datas == {"", "q=1", "hello world!"}

Messages == [Data : Datas]

Locations == [Service : Services, Host : Hosts, Port : Ports]

\* The capacity the builders add to the lengths of the variable fields.
GetOverhead == 50

PostOverhead == 100

\* operator<<(IOutputStream&, size_t): the decimal digits of v.
RECURSIVE ToDec(_)
ToDec(v) ==
    IF v < 10 THEN SubSeq("0123456789", v + 1, v + 1)
    ELSE ToDec(v \div 10) \o SubSeq("0123456789", (v % 10) + 1, (v % 10) + 1)

\* TRequestData(memSize), lines 88-91: Mem has memSize bytes, Parts_ is empty.
\* bytes is what has been written to the front of Mem.
NewRequestData(memSize) ==
    [thrown |-> FALSE, Mem |-> [size |-> memSize, bytes |-> ""], Parts |-> << >>]

\* What a caller is left with when Build throws.
Thrown == [thrown |-> TRUE, Mem |-> [size |-> 0, bytes |-> ""], Parts |-> << >>]

\* TMemoryOutput out(~req->Mem, +req->Mem), lines 114 and 142.
MemoryOutput(r) == [bytes |-> "", end |-> r.Mem.size, fail |-> FALSE]

\* out << s on a TMemoryOutput: the bytes are copied at the cursor when they
\* fit before the end of the buffer; otherwise the write throws.
MemWrite(out, str) ==
    IF out.fail THEN out
    ELSE IF Len(out.bytes) + Len(str) > out.end THEN [out EXCEPT !.fail = TRUE]
    ELSE [out EXCEPT !.bytes = @ \o str]

\* A variant of AddPart that puts the fragment at the front of the list.
AddPartFront(r, buf, len) ==
    [r EXCEPT !.Parts = <<[buf |-> buf, len |-> len]>> \o @]

\* AddPart, lines 97-99.
AddPart(r, buf, len) == [r EXCEPT !.Parts = Append(@, [buf |-> buf, len |-> len])]

\* The buffer after the header was written through out: lines 130 and 153,
\* AddPart(~req->Mem, out.Buf() - ~req->Mem).
WithHeader(r, out) ==
    AddPart([r EXCEPT !.Mem.bytes = out.bytes], [base |-> "Mem", off |-> 0], Len(out.bytes))

\* TRequestGet::Build, line 113: the size of the scratch memory.
GetMemSize(msg, loc) == GetOverhead + Len(loc.Service) + Len(msg.Data) + Len(loc.Host)

\* TRequestGet::Build, lines 112-132.
TRequestGetBuild(msg, loc) ==
    LET r  == NewRequestData(GetMemSize(msg, loc))
        o1 == MemWrite(MemWrite(MemoryOutput(r), "GET /"), loc.Service)
        o2 == IF msg.Data # "" THEN MemWrite(MemWrite(o1, "?"), msg.Data) ELSE o1
        o3 == MemWrite(MemWrite(o2, " HTTP/1.1\r\nHost: "), loc.Host)
        o4 == IF loc.Port # "" THEN MemWrite(MemWrite(o3, ":"), loc.Port) ELSE o3
        o5 == MemWrite(o4, "\r\n\r\n")
    IN  IF o5.fail THEN Thrown ELSE WithHeader(r, o5)

\* TRequestPost::Build, line 141: the size of the scratch memory.
PostMemSize(msg, loc) == PostOverhead + Len(loc.Service) + Len(loc.Host)

\* TRequestPost::Build, lines 140-156.
TRequestPostBuild(msg, loc) ==
    LET r  == NewRequestData(PostMemSize(msg, loc))
        o1 == MemWrite(MemWrite(MemoryOutput(r), "POST /"), loc.Service)
        o2 == MemWrite(MemWrite(o1, " HTTP/1.1\r\nHost: "), loc.Host)
        o3 == IF loc.Port # "" THEN MemWrite(MemWrite(o2, ":"), loc.Port) ELSE o2
        o4 == MemWrite(MemWrite(MemWrite(o3, "\r\nContent-Length: "),
                                ToDec(Len(msg.Data))), "\r\n\r\n")
    IN  IF o4.fail THEN Thrown
        ELSE AddPart(WithHeader(r, o4), [base |-> "Data", off |-> 0], Len(msg.Data))

\* A variant of TRequestFullBuild that copies the payload into Mem.
FullCopiesData(msg, loc) ==
    WithHeader(NewRequestData(Len(msg.Data)),
               [bytes |-> msg.Data, end |-> Len(msg.Data), fail |-> FALSE])

\* TRequestFull::Build, lines 164-168.
TRequestFullBuild(msg, loc) ==
    AddPart(NewRequestData(0), [base |-> "Data", off |-> 0], Len(msg.Data))

\* The bytes a fragment of r denotes, msg being the message r was built from.
PartBytes(r, msg, part) ==
    SubSeq(IF part.buf.base = "Mem" THEN r.Mem.bytes ELSE msg.Data,
           part.buf.off + 1, part.buf.off + part.len)

BldInit ==
    /\ message \in Messages
    /\ location \in Locations
    /\ built = "none"
    /\ req = NewRequestData(0)

BuildGet ==
    /\ built = "none"
    /\ req' = TRequestGetBuild(message, location)
    /\ built' = "http"
    /\ UNCHANGED <<message, location>>
    /\ UNCHANGED notBld

BuildPost ==
    /\ built = "none"
    /\ req' = TRequestPostBuild(message, location)
    /\ built' = "post"
    /\ UNCHANGED <<message, location>>
    /\ UNCHANGED notBld

BuildFull ==
    /\ built = "none"
    /\ req' = TRequestFullBuild(message, location)
    /\ built' = "full"
    /\ UNCHANGED <<message, location>>
    /\ UNCHANGED notBld

BldNext == BuildGet \/ BuildPost \/ BuildFull

BldIdle ==
    /\ message = [Data |-> ""]
    /\ location = [Service |-> "", Host |-> "h", Port |-> ""]
    /\ built = "none"
    /\ req = NewRequestData(0)

(***************************************************************************)
(* Part 5.  MakeFullRequest: the request type in effect.                   *)
(***************************************************************************)
\* enum class ERequestType, lines 175-181.
ERequestType == {"Any", "Post", "Get", "Put", "Delete"}

\* DefaultRequestType, line 195.
DefaultRequestType == "Any"

Schemes == {"http", "https", "http2", "post", "post2", "full", "full2", "udp"}

Contents == {"", "x", "a=1&b=2"}

HttpFamily == {"http", "https", "http2"}

\* A variant of ResolveType that does not look at the scheme.
ResolveIgnoresScheme(reqType, content, scheme) ==
    IF reqType = "Any" THEN (IF content = "" THEN "Get" ELSE "Post") ELSE reqType

\* The request type MakeFullRequest uses (note at lines 203-204).
ResolveType(reqType, content, scheme) ==
    IF reqType = "Any"
    THEN (IF content = "" /\ scheme \in HttpFamily THEN "Get" ELSE "Post")
    ELSE reqType

MfrInit ==
    /\ mfrType \in ERequestType
    /\ mfrContent \in Contents
    /\ mfrScheme \in Schemes
    /\ mfrEffective = "unset"

MakeFullRequest ==
    /\ mfrEffective = "unset"
    /\ mfrEffective' = ResolveType(mfrType, mfrContent, mfrScheme)
    /\ UNCHANGED <<mfrType, mfrContent, mfrScheme>>
    /\ UNCHANGED notMfr

MfrNext == MakeFullRequest

MfrIdle ==
    /\ mfrType = DefaultRequestType
    /\ mfrContent = ""
    /\ mfrScheme = "http"
    /\ mfrEffective = "unset"

(***************************************************************************)
(* Part 6.  TRequestData in the hands of a caller: AddPart and SendTo.     *)
(***************************************************************************)
\* The most fragments a buffer gets and the most SendTo calls followed.
MaxParts == 3

MaxSends == 2

\* Memory of the caller, outside the buffer.
CallerData == [Data |-> "q=1&x"]

\* What the owner may have written into Mem before adding fragments.
MemContents == {"", "GET / HTTP/1.1\r\n\r\n"}

\* The (buf, len) arguments a caller passes to AddPart: the written part of
\* Mem, the caller's data, and one byte in the middle of the caller's data.
Fragments(r) ==
    {[buf |-> [base |-> "Mem", off |-> 0], len |-> Len(r.Mem.bytes)],
     [buf |-> [base |-> "Data", off |-> 0], len |-> Len(CallerData.Data)],
     [buf |-> [base |-> "Data", off |-> 2], len |-> 1]}

\* IOutputStream::Write(const TPart*, size_t): one call, which hands the
\* stream the bytes of every part in array order.
RECURSIVE StreamWrite(_, _, _, _)
StreamWrite(r, parts, k, acc) ==
    IF k > Len(parts) THEN acc
    ELSE StreamWrite(r, parts, k + 1, acc \o PartBytes(r, CallerData, parts[k]))

\* SendTo, lines 93-95: io.Write(~Parts_, +Parts_), the stream io being the
\* sequence of what each Write call received.
SendTo(r, io) == Append(io, StreamWrite(r, r.Parts, 1, ""))

DatInit ==
    /\ \E b \in MemContents :
          rd = [NewRequestData(Len(b)) EXCEPT !.Mem.bytes = b]
    /\ sink = << >>
    /\ log = << >>
    /\ mem0 = rd.Mem

\* A call of AddPart(buf, len) by the owner of the buffer.
CallAddPart ==
    /\ Len(rd.Parts) < MaxParts
    /\ \E f \in Fragments(rd) :
          /\ rd' = AddPart(rd, f.buf, f.len)
          /\ log' = Append(log, f)
    /\ UNCHANGED <<sink, mem0>>
    /\ UNCHANGED notDat

\* A call of SendTo(io).
CallSendTo ==
    /\ Len(sink) < MaxSends
    /\ sink' = SendTo(rd, sink)
    /\ UNCHANGED <<rd, log, mem0>>
    /\ UNCHANGED notDat

DatNext == CallAddPart \/ CallSendTo

DatIdle ==
    /\ rd = NewRequestData(0)
    /\ sink = << >>
    /\ log = << >>
    /\ mem0 = rd.Mem

(***************************************************************************)
(* The specifications: one per part, the other parts at rest.              *)
(***************************************************************************)
SeqIdle == SeqInit

Init == SeqInit /\ IdxIdle /\ FdIdle /\ BldIdle /\ MfrIdle /\ DatIdle

Next == SeqNext

Spec == Init /\ [][Next]_vars

InitIndex == IdxInit /\ SeqIdle /\ FdIdle /\ BldIdle /\ MfrIdle /\ DatIdle

SpecIndex == InitIndex /\ [][IdxNext]_vars

InitFd == FdInit /\ SeqIdle /\ IdxIdle /\ BldIdle /\ MfrIdle /\ DatIdle

SpecFd == InitFd /\ [][FdNext]_vars

InitBuild == BldInit /\ SeqIdle /\ IdxIdle /\ FdIdle /\ MfrIdle /\ DatIdle

SpecBuild == InitBuild /\ [][BldNext]_vars

InitMfr == MfrInit /\ SeqIdle /\ IdxIdle /\ FdIdle /\ BldIdle /\ DatIdle

SpecMfr == InitMfr /\ [][MfrNext]_vars

InitData == DatInit /\ SeqIdle /\ IdxIdle /\ FdIdle /\ BldIdle /\ MfrIdle

SpecData == InitData /\ [][DatNext]_vars

(***************************************************************************)
(* Claims about TLockFreeSequence, checked under Spec.                     *)
(***************************************************************************)
InCall(t) == pc[t] \in {"test", "new", "cas", "drop", "ret"}

Published == {T_[i] : i \in Segs} \ {NULL}

InFlight == {nt[t] : t \in {u \in Threads : pc[u] \in {"cas", "drop"}}}

\* C1: every Get(n) of one container returns a reference to the same slot:
\* all the arrays Get ever returned a reference into for one segment are one
\* array, and two finished calls with the same n hold the same array and the
\* same offset.
C1_SameSlot ==
    /\ \A i \in Segs : Cardinality(given[i]) <= 1
    /\ \A t \in Threads : pc[t] = "done" => given[seg[t]] = {ref[t].arr}
    /\ \A t1, t2 \in Threads :
          (pc[t1] = "done" /\ pc[t2] = "done" /\ arg[t1] = arg[t2])
              => ref[t1] = ref[t2]

\* Two threads have finished Get of the same index with the same slot, one of
\* them having published the segment, after a larger segment was published.
C1_Witness ==
    \E t1, t2 \in Threads :
        /\ t1 # t2 /\ pc[t1] = "done" /\ pc[t2] = "done"
        /\ arg[t1] = arg[t2] /\ ref[t1] = ref[t2]
        /\ ref[t1].arr.by = t1
        /\ \E i \in Segs : i > seg[t1] /\ T_[i] # NULL

\* C2: of the arrays allocated in a race for segment i exactly one is stored
\* in slot i, and every GetList(i) returns it: the winner its own array, a
\* loser the array it found in the slot.
C2_OneWinner ==
    /\ \A i \in Segs :
          /\ given[i] \subseteq {T_[i]}
          /\ T_[i] # NULL => T_[i].seg = i /\ (alive => T_[i] \in heap)
    /\ \A t \in Threads :
          pc[t] = "done" =>
              /\ ref[t].arr # NULL
              /\ ref[t].arr = T_[seg[t]]
              /\ allocs[t] = 1 => (ref[t].arr.by = t <=> reads[t] = 1)

\* Two threads both allocated for the same unpublished segment; both calls
\* have returned, the loser with the winner's array.
C2_Witness ==
    \E t1, t2 \in Threads :
        /\ t1 # t2 /\ pc[t1] = "done" /\ pc[t2] = "done"
        /\ seg[t1] = seg[t2]
        /\ allocs[t1] = 1 /\ allocs[t2] = 1
        /\ ref[t1].arr.by = t1 /\ ref[t2].arr = ref[t1].arr

\* C3: every array allocated is freed exactly once.  While the container is
\* alive the live arrays are the published ones and those a thread holds
\* between its allocation and the end of its loop body (a loser's array is
\* gone before its GetList returns); after the destructor no array is live;
\* delete[] is never applied to an array that is not live.
C3_FreedOnce ==
    /\ ~badFree
    /\ alive => heap = Published \cup InFlight
    /\ ~alive => heap = {}
    /\ \A t \in Threads :
          /\ pc[t] \notin {"cas", "drop"} => nt[t] = NULL
          /\ pc[t] \in {"cas", "drop"} => nt[t].by = t /\ nt[t] \in heap
          /\ pc[t] = "drop" => nt[t] \notin Published

\* The destructor has run after a race in which one thread lost.
C3_Witness ==
    /\ ~alive
    /\ Published # {}
    /\ \E t \in Threads : allocs[t] = 1 /\ ref[t].arr.by # t

\* The steps of GetList that thread t can take.
GetListStep(t) ==
    LoopTest(t) \/ New(t) \/ CasWin(t) \/ CasLose(t) \/ Drop(t) \/ Ret(t)

\* C4: every Get completes whatever the other threads do: a call in progress
\* always has an enabled step, and it makes at most one allocation, one
\* compare-and-exchange and two loop tests, because after a failed
\* compare-and-exchange the slot is published.
C4_Completes ==
    \A t \in Threads :
        /\ allocs[t] <= 1 /\ cass[t] <= 1 /\ reads[t] <= 2
        /\ InCall(t) => ENABLED GetListStep(t)
        /\ (InCall(t) /\ cass[t] = 1) => T_[seg[t]] # NULL
        /\ (pc[t] = "test" /\ reads[t] = 1) => cass[t] = 1

\* A thread has lost the race and is back at the loop test while another
\* thread is in the middle of a call.
C4_Witness ==
    \E t1, t2 \in Threads :
        /\ t1 # t2
        /\ pc[t1] = "test" /\ reads[t1] = 1 /\ allocs[t1] = 1 /\ cass[t1] = 1
        /\ InCall(t2)

(***************************************************************************)
(* Claims about the index computation, checked under SpecIndex.            *)
(***************************************************************************)
\* The elements of the segments 0 .. k - 1 of a table for words of w bits.
RECURSIVE TotalLen(_, _)
TotalLen(k, w) == IF k = 0 THEN 0 ELSE TotalLen(k - 1, w) + SegLen(k - 1, 2 ^ w)

\* C5: for a word of w bits and every n in 0 .. 2^w - 2, n + 1 does not wrap,
\* the segment i is bit-length(n + 1) - 1 and lies in the w-slot table, the
\* offset is (n + 1) - 2^i and lies in the 2^i-element segment; the segments
\* hold 2^w - 1 elements together, as many as there are such indices.
C5_InBounds ==
    /\ index \in 0 .. 2 ^ width - 2
    /\ TotalLen(width, width) = 2 ^ width - 1
    /\ ipc = "got" =>
          /\ index + 1 < 2 ^ width
          /\ segment \in 0 .. width - 1
          /\ 2 ^ segment <= index + 1 /\ index + 1 < 2 ^ (segment + 1)
          /\ offset = index + 1 - 2 ^ segment
          /\ offset \in 0 .. SegLen(segment, 2 ^ width) - 1

\* The largest index of a word has been located: the last slot of the last
\* segment.
C5_Witness ==
    /\ ipc = "got"
    /\ width > 2
    /\ index = 2 ^ width - 2
    /\ segment = width - 1
    /\ offset = 2 ^ segment - 1

\* The (segment, offset) pair Get computes for index m in a word of w bits.
SlotOf(m, w) ==
    <<SegIndex(m, 2 ^ w), SlotOffset(m, SegIndex(m, 2 ^ w), 2 ^ w)>>

\* C17: the index mapping of Get is a bijection between the indices
\* 0 .. 2^w - 2 and the slots: no other index maps to the pair computed for
\* n, slot j of segment i is reached by exactly n = 2^i - 1 + j, the
\* indices served by segment i are exactly 2^i - 1 .. 2^(i+1) - 2, and
\* every slot of the segment is reached by some index.
C17_Bijection ==
    ipc = "got" =>
        /\ index = 2 ^ segment - 1 + offset
        /\ \A m \in 0 .. 2 ^ width - 2 :
              m # index => SlotOf(m, width) # <<segment, offset>>
        /\ {m \in 0 .. 2 ^ width - 2 : SlotOf(m, width)[1] = segment}
              = 2 ^ segment - 1 .. 2 ^ (segment + 1) - 2
        /\ \A j \in 0 .. SegLen(segment, 2 ^ width) - 1 :
              /\ 2 ^ segment - 1 + j \in 0 .. 2 ^ width - 2
              /\ SlotOf(2 ^ segment - 1 + j, width) = <<segment, j>>

\* The first slot of the last segment of a word has been located.
C17_Witness ==
    /\ ipc = "got"
    /\ width > 2
    /\ segment = width - 1
    /\ offset = 0
    /\ index = 2 ^ segment - 1

(***************************************************************************)
(* Claims about TFdLimits, checked under SpecFd.                           *)
(***************************************************************************)
\* C6: Delta() returns max(Hard - Soft, 0), never a wrapped-around
\* difference; a default-constructed TFdLimits has Soft = 10000 and
\* Hard = 15000 and Delta() = 5000; Soft = 10000 and Hard = 8000 give 0.
\* (Stated of a call during which no other thread stores to the fields.)
C6_Delta ==
    /\ fresh => Soft = 10000 /\ Hard = 15000
    /\ (dpc = "done" /\ clean) =>
          /\ delta = (IF Hard - Soft > 0 THEN Hard - Soft ELSE 0)
          /\ delta \in 0 .. FdMod - 1
          /\ delta <= Hard
          /\ (Soft = 10000 /\ Hard = 15000) => delta = 5000
          /\ (Soft = 10000 /\ Hard = 8000) => delta = 0

\* Delta() has returned 0 for the inverted limits Soft = 10000, Hard = 8000.
C6_Witness ==
    /\ dpc = "done" /\ clean
    /\ Soft = 10000 /\ Hard = 8000
    /\ delta = 0

\* C18: when another thread stores to Soft and Hard while Delta() runs,
\* Delta() reads Hard once and Soft once, each read taking the value the
\* field holds at that moment and keeping it whatever is stored afterwards,
\* and it compares and subtracts those two values: the result is
\* max(h - s, 0) for the values h and s read, never larger than h and never
\* a wrapped-around difference.
C18_RacingDelta ==
    [][/\ ("Hard" \in got' /\ "Hard" \notin got) => rdHard' = Hard
       /\ ("Soft" \in got' /\ "Soft" \notin got) => rdSoft' = Soft
       /\ ("Hard" \in got /\ dpc' # "args") => rdHard' = rdHard
       /\ ("Soft" \in got /\ dpc' # "args") => rdSoft' = rdSoft
       /\ ("Hard" \in got /\ dpc' = dpc) => rdHard' = rdHard
       /\ ("Soft" \in got /\ dpc' = dpc) => rdSoft' = rdSoft
       /\ (dpc = "args" /\ dpc' = "done") => got = {"Hard", "Soft"}
       /\ dpc' = "done" =>
            /\ delta' = (IF rdHard' - rdSoft' > 0 THEN rdHard' - rdSoft' ELSE 0)
            /\ delta' <= rdHard'
            /\ delta' \in 0 .. FdMod - 1]_vars

\* Delta() returned 0 from a Hard read before and a Soft read after stores
\* of another thread, although the fields now differ the other way.
C18_Witness ==
    /\ dpc = "done" /\ ~clean
    /\ rdSoft > rdHard /\ delta = 0
    /\ Hard > Soft /\ rdHard # Hard /\ rdSoft # Soft

(***************************************************************************)
(* Claims about the builders, checked under SpecBuild.                     *)
(***************************************************************************)
\* Whether the one-character string c occurs in str.
HasChar(str, c) == \E k \in 1 .. Len(str) : SubSeq(str, k, k) = c

HostLine(loc) ==
    " HTTP/1.1\r\nHost: " \o loc.Host \o (IF loc.Port # "" THEN ":" \o loc.Port ELSE "")

GetWire(msg, loc) ==
    "GET /" \o loc.Service \o (IF msg.Data # "" THEN "?" \o msg.Data ELSE "")
            \o HostLine(loc) \o "\r\n\r\n"

GetRequestIs(r, msg, loc) ==
    /\ ~r.thrown
    /\ Len(r.Parts) = 1
    /\ r.Parts[1].buf = [base |-> "Mem", off |-> 0]
    /\ PartBytes(r, msg, r.Parts[1]) = GetWire(msg, loc)
    /\ msg.Data = "" => ~HasChar(PartBytes(r, msg, r.Parts[1]), "?")
    /\ loc.Port = "" =>
          LET bytes == PartBytes(r, msg, r.Parts[1])
              name == "\r\nHost: "
          IN  \E k \in 1 .. Len(bytes) :
                  /\ SubSeq(bytes, k, k + Len(name) - 1) = name
                  /\ ~HasChar(SubSeq(bytes, k + Len(name), Len(bytes)), ":")

\* C7: for every message and location TRequestGet::Build returns a buffer
\* with exactly one fragment, in the buffer's scratch memory, whose bytes are
\* "GET /" Service ["?" Data] " HTTP/1.1\r\nHost: " Host [":" Port] "\r\n\r\n".
C7_GetRequest == built = "http" => GetRequestIs(req, message, location)

\* What does hold of TRequestGet::Build: the same, for the inputs whose
\* request fits the 50 + |Service| + |Data| + |Host| bytes of scratch memory.
C7_GetRequestWhenFits ==
    built = "http" =>
        IF Len(GetWire(message, location)) <= GetMemSize(message, location)
        THEN GetRequestIs(req, message, location)
        ELSE req.thrown

\* The value of a string of decimal digits.
RECURSIVE DecValue(_)
DecValue(str) ==
    IF str = "" THEN 0
    ELSE 10 * DecValue(SubSeq(str, 1, Len(str) - 1))
         + (CHOOSE d \in 0 .. 9 :
               SubSeq("0123456789", d + 1, d + 1) = SubSeq(str, Len(str), Len(str)))

PostHead(loc) == "POST /" \o loc.Service \o HostLine(loc) \o "\r\nContent-Length: "

PostRequestIs(r, msg, loc) ==
    /\ ~r.thrown
    /\ Len(r.Parts) = 2
    /\ r.Parts[1].buf = [base |-> "Mem", off |-> 0]
    /\ LET hdr == PartBytes(r, msg, r.Parts[1])
           digits == SubSeq(hdr, Len(PostHead(loc)) + 1, Len(hdr) - 4)
       IN  /\ SubSeq(hdr, 1, Len(PostHead(loc))) = PostHead(loc)
           /\ SubSeq(hdr, Len(hdr) - 3, Len(hdr)) = "\r\n\r\n"
           /\ digits # ""
           /\ \A k \in 1 .. Len(digits) : HasChar("0123456789", SubSeq(digits, k, k))
           /\ Len(digits) > 1 => SubSeq(digits, 1, 1) # "0"
           /\ DecValue(digits) = r.Parts[2].len
    /\ r.Parts[2] = [buf |-> [base |-> "Data", off |-> 0], len |-> Len(msg.Data)]

\* C8: for every message and location TRequestPost::Build returns a buffer
\* with exactly two fragments: the header block "POST /" Service
\* " HTTP/1.1\r\nHost: " Host [":" Port] "\r\nContent-Length: " <decimal length
\* of Data> "\r\n\r\n" in scratch memory, then the pointer and length of the
\* message's Data; the Content-Length is the length of the second fragment.
C8_PostRequest == built = "post" => PostRequestIs(req, message, location)

\* What does hold of TRequestPost::Build: the same, for the inputs whose
\* header fits the 100 + |Service| + |Host| bytes of scratch memory.
C8_PostRequestWhenFits ==
    built = "post" =>
        IF Len(PostHead(location)) + Len(ToDec(Len(message.Data))) + 4
               <= PostMemSize(message, location)
        THEN PostRequestIs(req, message, location)
        ELSE req.thrown

\* C11: whatever the lengths of Service, Host, Port and Data, a builder never
\* writes more than the capacity it sized (50 + |Service| + |Data| + |Host|
\* for TRequestGet::Build, 100 + |Service| + |Host| for TRequestPost::Build),
\* so the bounds-checked cursor never reports an overflow.
C11_NeverOverflows ==
    /\ built = "http" =>
          /\ ~req.thrown
          /\ req.Parts[1].len <= GetMemSize(message, location)
          /\ req.Mem.size = GetMemSize(message, location)
    /\ built = "post" =>
          /\ ~req.thrown
          /\ req.Parts[1].len <= PostMemSize(message, location)
          /\ req.Mem.size = PostMemSize(message, location)

\* C9: TRequestFull::Build returns a buffer with exactly one fragment, the
\* pointer and length of the message's Data, and empty scratch memory,
\* whatever the location.
C9_FullRequest ==
    built = "full" =>
        /\ ~req.thrown
        /\ req.Parts = <<[buf |-> [base |-> "Data", off |-> 0], len |-> Len(message.Data)]>>
        /\ PartBytes(req, message, req.Parts[1]) = message.Data
        /\ req.Mem.size = 0 /\ req.Mem.bytes = ""
        /\ \A l \in Locations : TRequestFullBuild(message, l) = req

\* TRequestFull::Build has run on a non-empty payload and a location with a
\* service and a port.
C9_Witness ==
    /\ built = "full"
    /\ message.Data = "q=1"
    /\ location.Service # "" /\ location.Port # ""
    /\ Len(req.Parts) = 1

(***************************************************************************)
(* Claims about MakeFullRequest, checked under SpecMfr.                    *)
(***************************************************************************)
\* C10: a requested type Any becomes Get exactly when the content is empty
\* and the scheme is http, https or http2, and Post otherwise; an explicit
\* Post, Get, Put or Delete is used unchanged.
C10_RequestType ==
    mfrEffective # "unset" =>
        /\ mfrType = "Any" =>
              /\ mfrEffective \in {"Get", "Post"}
              /\ mfrEffective = "Get" <=>
                     (mfrContent = "" /\ mfrScheme \in {"http", "https", "http2"})
        /\ mfrType # "Any" => mfrEffective = mfrType

\* Any with empty content and a scheme outside the http family became Post.
C10_Witness ==
    /\ mfrType = "Any"
    /\ mfrContent = ""
    /\ mfrScheme = "post"
    /\ mfrEffective = "Post"

(***************************************************************************)
(* Further properties of TLockFreeSequence.                                *)
(***************************************************************************)
\* C12: while the container is alive a slot of the table changes at most
\* once, from null to one published array, and never again; a published
\* array is not freed, so every reference a Get returned points into live
\* memory until the destructor runs.
C12_PublishedForGood ==
    [][/\ \A i \in Segs : T_[i] # NULL => T_'[i] = T_[i]
       /\ alive' =>
            /\ \A i \in Segs : T_'[i] # NULL => T_'[i] \in heap'
            /\ \A i \in Segs : given'[i] \subseteq heap'
            /\ \A t \in Threads : ref'[t].arr # NULL => ref'[t].arr \in heap']_vars

\* Every slot is published, one thread holds a reference it was given and
\* another is about to try its compare-and-exchange on a published slot.
C12_Witness ==
    /\ alive
    /\ \A i \in Segs : T_[i] # NULL
    /\ \E t, u \in Threads :
          /\ pc[t] = "done" /\ ref[t].arr \in heap
          /\ pc[u] = "cas" /\ T_[seg[u]] # NULL /\ seg[u] = seg[t]

\* C13: no reference into a segment is returned before the whole segment
\* is published: the array a Get returned is the one stored in the slot, it
\* has 2^i elements, all of them constructed, and an array is fully
\* constructed already when its compare-and-exchange is attempted.
C13_WholeSegment ==
    /\ \A t \in Threads : pc[t] = "done" =>
          /\ ref[t].arr # NULL
          /\ ref[t].arr = T_[seg[t]]
          /\ ref[t].arr.len = 2 ^ seg[t]
          /\ ref[t].arr.built = ref[t].arr.len
          /\ ref[t].off < ref[t].arr.built
    /\ \A t \in Threads : pc[t] = "cas" =>
          nt[t].len = 2 ^ seg[t] /\ nt[t].built = nt[t].len
    /\ \A i \in Segs : T_[i] # NULL => T_[i].built = 2 ^ i
    /\ \A i \in Segs : given[i] \subseteq ({T_[i]} \ {NULL})

\* A thread was given the last element of a two-element segment while
\* another thread still holds its own array for the same segment.
C13_Witness ==
    \E t, u \in Threads :
        /\ pc[t] = "done" /\ seg[t] = 1 /\ ref[t].off = 1
        /\ ref[t].arr.built = 2
        /\ pc[u] = "drop" /\ seg[u] = 1 /\ nt[u] \in heap

\* C14 as stated: a Get that found its segment published at its first read
\* of the slot allocated nothing, attempted no compare-and-exchange and
\* returned after a single read of the slot.
C14_SingleRead ==
    \A t \in Threads : (pc[t] = "done" /\ reads[t] = 1 /\ allocs[t] = 0) =>
        cass[t] = 0 /\ loads[t] = 1

\* C14: a Get whose slot is published when its loop test reads it leaves
\* the loop at once and returns the slot's array, with no allocation, no
\* compare-and-exchange and no write to the table or the heap, whatever
\* the other threads do; it reads the slot twice, once in the loop test
\* (line 68) and once for the return value (line 76).
C14_FastPath ==
    [][\A t \in Threads :
         /\ (pc[t] = "test" /\ pc'[t] # "test" /\ T_[seg[t]] # NULL) =>
               /\ pc'[t] = "ret"
               /\ T_' = T_ /\ heap' = heap
               /\ allocs'[t] = allocs[t] /\ cass'[t] = cass[t]
               /\ loads'[t] = loads[t] + 1
         /\ (pc[t] = "ret" /\ pc'[t] = "done") =>
               /\ T_' = T_ /\ heap' = heap
               /\ allocs'[t] = allocs[t] /\ cass'[t] = cass[t]
               /\ loads'[t] = loads[t] + 1
               /\ ref'[t].arr = T_[seg[t]]
         /\ (pc'[t] = "done" /\ reads'[t] = 1 /\ allocs'[t] = 0) =>
               cass'[t] = 0 /\ loads'[t] = 2]_vars

\* A Get returned on the fast path while another thread is in the middle
\* of publishing a different segment.
C14_Witness ==
    \E t, u \in Threads :
        /\ pc[t] = "done" /\ reads[t] = 1 /\ allocs[t] = 0 /\ loads[t] = 2
        /\ pc[u] = "cas" /\ seg[u] # seg[t] /\ T_[seg[u]] = NULL

\* The segment whose index range 2^i - 1 .. 2^(i+1) - 2 contains n.
Containing(n) == CHOOSE i \in Segs : 2 ^ i - 1 <= n /\ n <= 2 ^ (i + 1) - 2

\* C15: a Get(n) touches only the slot of the segment that contains n.
\* Segments are published lazily: a slot changes only in a step of a Get
\* whose index lies in that segment, and a finished Get leaves its segment
\* published, so the published segments are those of the indices accessed.
\* A step on segment i1 leaves every other slot as it was, and whatever the
\* other slots hold, a thread can still publish or read its own segment.
C15_OwnSlotOnly ==
    [][/\ \A i \in Segs : T_'[i] # T_[i] =>
            \E t \in Threads :
                /\ InCall(t) /\ pc'[t] = "done"
                /\ Containing(arg[t]) = i /\ seg[t] = i
       /\ \A t \in Threads : pc'[t] # pc[t] =>
            \A i \in Segs \ {Containing(arg'[t])} : T_'[i] = T_[i]
       /\ \A t \in Threads : pc'[t] = "done" =>
            /\ T_'[Containing(arg'[t])] # NULL
            /\ ref'[t].arr = T_'[Containing(arg'[t])]
       /\ \A i \in Segs : T_'[i] # NULL => given'[i] # {}
       /\ \A t \in Threads :
            /\ (pc[t] = "cas" /\ T_[seg[t]] = NULL) => ENABLED CasWin(t)
            /\ pc[t] = "ret" => ENABLED Ret(t)]_vars

\* The second segment is published and the first is not, while a thread is
\* about to publish the first.
C15_Witness ==
    /\ T_[0] = NULL /\ T_[1] # NULL
    /\ \E t, u \in Threads :
          /\ pc[t] = "done" /\ Containing(arg[t]) = 1
          /\ pc[u] = "cas" /\ seg[u] = 0

(***************************************************************************)
(* TRequestData: AddPart and SendTo.                                       *)
(***************************************************************************)
\* The bytes the fragments fs denote, one after the other.
RECURSIVE Concatenation(_)
Concatenation(fs) ==
    IF fs = << >> THEN ""
    ELSE SubSeq(IF Head(fs).buf.base = "Mem" THEN mem0.bytes ELSE CallerData.Data,
                Head(fs).buf.off + 1, Head(fs).buf.off + Head(fs).len)
         \o Concatenation(Tail(fs))

\* C16: AddPart(buf, len) puts (buf, len) at the end of the fragment list
\* and leaves the earlier fragments and Mem as they were; SendTo hands the
\* stream, in one Write call, the bytes of all fragments in the order they
\* were added, and leaves the buffer as it was.
C16_AppendAndSend ==
    [][/\ rd'.Parts = log' /\ rd'.Mem = mem0'
       /\ log' # log =>
            /\ Len(rd'.Parts) = Len(rd.Parts) + 1
            /\ SubSeq(rd'.Parts, 1, Len(rd.Parts)) = rd.Parts
            /\ rd'.Parts[Len(rd'.Parts)] = log'[Len(log')]
            /\ rd'.Mem = rd.Mem
            /\ sink' = sink
       /\ sink' # sink =>
            /\ rd' = rd
            /\ Len(sink') = Len(sink) + 1
            /\ SubSeq(sink', 1, Len(sink)) = sink
            /\ sink'[Len(sink')] = Concatenation(log)]_vars

\* The header in Mem was added first and the caller's data second, and the
\* last SendTo delivered the header followed by the data.
C16_Witness ==
    /\ Len(rd.Parts) = 2
    /\ rd.Mem.bytes # ""
    /\ rd.Parts[1].buf.base = "Mem" /\ rd.Parts[2].buf.base = "Data"
    /\ Len(sink) = 2
    /\ sink[1] = rd.Mem.bytes
    /\ sink[2] = rd.Mem.bytes \o CallerData.Data

=============================================================================
